---- MODULE Spec2Model ----
(***************************************************************************)
(* Payment coordination of the merch MCP server: OrderService (orders and  *)
(* their status), NostrService (the pendingPayments map, the deferred      *)
(* payment promise and its timeout timer, handleIncomingTransfer) and the  *)
(* place_order / confirm_order tools that call them.                       *)
(*                                                                         *)
(* JavaScript runs every callback to completion, so one action of this     *)
(* model is one synchronous block of the source: the code between two      *)
(* awaits of an async function, or a whole timer callback.                 *)
(***************************************************************************)
EXTENDS Integers, Sequences, FiniteSets, Bags, TLC

\* ---- bounds of the model ----
MaxOrders == 2
MaxRequests == 2
MaxDeliveries == 2
\* the latest value of Date.now() when the order service is driven on its own
MaxClock == 3
\* orders created when the order store is driven with products, quantities and sizes
MaxCreated == 2
\* calls of resolvePubkey in progress at the same time
MaxCalls == 2
\* length of a buyer's name, in pieces of text
MaxLen == 2

OrderIds == 1..MaxOrders
EventIds == 1..MaxRequests

\* no reply-reference on an event / no eventId assigned yet
NoEvent == 0

\* the directory of nametags: unicityId -> Nostr public key
Directory == [alice |-> "pkA", bob |-> "pkB"]
UnicityIds == DOMAIN Directory
Pubkeys == {Directory[u] : u \in UnicityIds}

VARIABLES
  orders,           \* OrderService.orders: orderId -> Order
  paymentToOrder,   \* OrderService.paymentToOrder: eventId -> orderId
  clock,            \* Date.now()
  pendingPayments,  \* NostrService.pendingPayments: the keys, in insertion order
  entries,          \* the PendingPayment objects, by eventId
  promise,          \* paymentPromise of each request
  timer,            \* the timeout timer of each request: "none", "armed", "off" (expired
                    \* or cleared); "match": "timedout" when it expired and settled the entry
  sends,            \* calls of the relay client's sendPaymentRequest so far
  nextEventId,      \* the next eventId the relay client hands out
  place,            \* place_order call of each order
  confirm,          \* confirm_order call of each order
  delivered,        \* calls of onEvent so far: an event is handed to the onEvent of every
                    \* subscription the client holds
  handlers,         \* bag of the handleIncomingTransfer invocations suspended at an await
  notes,            \* the topics of which the history is kept: "match", "reply", "wait", "store",
                    \* "stream", "cache"
  tokens,           \* "store": number of token files written to <dataDir>/tokens
  rejected,         \* "store": where a handler settled the request false ("decrypt", "finalize")
  observed,         \* "wait": outcomes seen by callers of waitForPayment, per request
  heap,             \* every Order object createOrder has made, in the order of creation
  book,             \* OrderService.orders as a Map: <<orderId, object>> pairs in insertion
                    \* order, for the runs where the product, quantity and size matter
  notFound,         \* the error replies given: the tools that have replied "Could not find
                    \* Unicity ID", and the refusals confirm_order has replied
  pubkeyCache,      \* pubkeyCache: cleanId -> { pubkey, timestamp }
  calls,            \* the calls of resolvePubkey: where each one is and what it returned
  returnedNull,     \* "cache": the identifiers for which the latest return of resolvePubkey was null
  norm,             \* the latest pair of identifiers given to the tools, and the keys made of them
  existing,         \* the promises returned by waitForExistingPayment, per request: "none"
                    \* (never called), "pending", "true", "false"
  received,         \* "value": the token whose transfer made each order paid
  subscriptions     \* the payment subscriptions the relay client holds

\* the state of the components that are driven on their own
apart == <<heap, book, notFound, pubkeyCache, calls, returnedNull, norm, subscriptions>>
side == <<apart, existing, received>>

vars == <<side, sends, orders, paymentToOrder, clock, pendingPayments, entries, promise, timer,
          nextEventId, place, confirm, delivered, handlers, tokens, notes, observed, rejected>>

\* calls of resolvePubkey that can be in progress together
Calls == 1..MaxCalls

\* resolvePubkey returned null
NoKey == "null"

\* pubkeyCache.get(cleanId) is undefined
NoCache == [pubkey |-> NoKey, timestamp |-> 0]

\* no call of resolvePubkey was made in this place yet
NoCall == [pc |-> "idle", id |-> "none", attempt |-> 0, result |-> NoKey]

\* no identifier was given to a tool yet
NoNorm == [name |-> <<>>, placed |-> <<>>, asked |-> <<>>, orderKey |-> <<>>, askedKey |-> <<>>,
           placedCacheKey |-> <<>>, askedCacheKey |-> <<>>]

\* no token was received for the order
NoToken == [coinId |-> "none", amount |-> 0]

NoOrder == [status |-> "none", unicityId |-> "none", paidAt |-> 0]
NoEntry == [eventId |-> NoEvent, userPubkey |-> "none", orderId |-> 0, amount |-> 0,
            coinId |-> "none"]

\* 1 UCT.  It is 10^18 units in the source and 10^6 here: the integers of the
\* model checker are 32 bits wide, and every amount of the catalog is a whole
\* number of UCT
UCT == 1000000

TShirtSizes == {"S", "M", "L", "XL", "XXL"}

\* no size given (undefined)
NoSize == "none"

\* catalog.ts PRODUCTS; sized is whether the product has a sizes field
PRODUCTS ==
  ("tshirt-unicity" :> [price |-> 25 * UCT, sized |-> TRUE, sizes |-> TShirtSizes, inStock |-> TRUE])
  @@ ("mug-white" :> [price |-> 15 * UCT, sized |-> FALSE, sizes |-> {}, inStock |-> TRUE])
  @@ ("mug-black" :> [price |-> 15 * UCT, sized |-> FALSE, sizes |-> {}, inStock |-> TRUE])

\* config.coinId: the coin every payment request asks for
COIN_ID == "uct-coin"

\* order.totalPrice of the orders of the payment runs: each is of one white mug
OrderTotal == PRODUCTS["mug-white"].price * 1

\* the coin and the amount of the token an inbound transfer carries
TransferTokens == [coinId : {COIN_ID, "other-coin"}, amount : {1 * UCT, OrderTotal}]

\* A handler invocation holds the pendingKey it selected while it runs.  It
\* also carries notes of how it was correlated.  "reply": via is the tier that
\* matched ("replyTo", "sender").  "match", while it waits for
\* parseTokenTransfer: refMiss says that a reply-reference was present and
\* matched no entry, so that the sender matched, and rivals says that the
\* sender matched and had other live entries besides the selected one.
\* "stream": after says that the processing of an earlier event had failed
\* when this event was delivered.
Invocation(key, via, refMiss, rivals, after) ==
  [pc |-> "decrypt", pendingKey |-> key, via |-> via, refMiss |-> refMiss, rivals |-> rivals,
   after |-> after]
Suspended(pc) == {h \in BagToSet(handlers) : h.pc = pc}

\* ---- helpers on the Map ----
SeqToSet(s) == {s[i] : i \in 1..Len(s)}

\* Map.has(e)
Has(pp, e) == e \in SeqToSet(pp)

\* Map.delete(e): the key disappears, the order of the others is kept
MapDelete(pp, e) == SelectSeq(pp, LAMBDA k : k # e)

\* Map.set(e, ..) of a key that is not in the map: appended last
MapSet(pp, e) == IF Has(pp, e) THEN pp ELSE Append(pp, e)

Settled(e) == promise[e] \in {"true", "false"}

\* a value of the history: v when the history of the topic is kept, d otherwise
Note(topic, v, d) == IF topic \in notes THEN v ELSE d

\* faulty variant: every call of resolve overwrites the outcome
ResolvePromise_Overwrite(p, e, v) ==
  IF p[e] = "unsent" THEN p ELSE [p EXCEPT ![e] = v]

\* A promise is settled by the first call of its resolve function; later calls
\* have no effect.
ResolvePromise(p, e, v) ==
  IF p[e] = "pending" THEN [p EXCEPT ![e] = v] ELSE p

\* pending.resolve(v) as seen by the promises waitForExistingPayment returned:
\* the wrapper it stored in the entry's resolve field settles them
ResolveExisting(x, e, v) ==
  IF x[e] = "pending" THEN [x EXCEPT ![e] = v] ELSE x

\* ---- correlation of an inbound event (handleIncomingTransfer) ----

\* this.pendingPayments.get(replyToEventId), tried only when a reply-reference is present
MatchByReplyTo(pp, replyTo) ==
  IF replyTo # NoEvent /\ Has(pp, replyTo) THEN replyTo ELSE NoEvent

\* faulty variant: the loop has no break, so the last entry of the sender wins
MatchBySender_Last(pp, ents, sender) ==
  LET hits == {i \in 1..Len(pp) : ents[pp[i]].userPubkey = sender}
  IN IF hits = {} THEN NoEvent
     ELSE pp[CHOOSE i \in hits : \A j \in hits : i >= j]

\* faulty variant: the loop takes the first entry whatever its sender
MatchBySender_Any(pp, ents, sender) == IF pp = <<>> THEN NoEvent ELSE pp[1]

\* for (const [key, p] of this.pendingPayments) if (p.userPubkey === senderPubkey) ... break
MatchBySender(pp, ents, sender) ==
  LET hits == {i \in 1..Len(pp) : ents[pp[i]].userPubkey = sender}
  IN IF hits = {} THEN NoEvent
     ELSE pp[CHOOSE i \in hits : \A j \in hits : i <= j]

\* faulty variant: the sender is tried before the reply-reference
MatchPending_SenderFirst(pp, ents, replyTo, sender) ==
  IF MatchBySender(pp, ents, sender) # NoEvent
  THEN MatchBySender(pp, ents, sender)
  ELSE MatchByReplyTo(pp, replyTo)

\* the pendingKey chosen for an event, NoEvent when nothing matches
MatchPending(pp, ents, replyTo, sender) ==
  IF MatchByReplyTo(pp, replyTo) # NoEvent
  THEN MatchByReplyTo(pp, replyTo)
  ELSE MatchBySender(pp, ents, sender)

\* faulty variant: the timeout callback resolves false and leaves the entry in the map
TimeoutDelete_Keep(pp, e) == pp

\* the timeout callback's effect on the map: this.pendingPayments.delete(eventId)
TimeoutDelete(pp, e) == MapDelete(pp, e)

\* faulty variant: the handler resolves and leaves the entry in the map
HandlerDelete_Keep(pp, key) == pp

\* the handler's effect on the map once it has settled: this.pendingPayments.delete(pendingKey)
HandlerDelete(pp, key) == MapDelete(pp, key)

\* NostrService.getPendingPaymentForOrder: the first eventId in the map whose
\* entry belongs to the order, NoEvent (null) when there is none
getPendingPaymentForOrder(pp, ents, o) ==
  LET hits == {i \in 1..Len(pp) : ents[pp[i]].orderId = o}
  IN IF hits = {} THEN NoEvent
     ELSE pp[CHOOSE i \in hits : \A j \in hits : i <= j]

\* faulty variant: every order that awaits payment is marked paid
markAsPaid_All(ords, o, now) ==
  [x \in DOMAIN ords |->
     IF ords[x].status = "pending_payment" \/ (x = o /\ ords[x].status # "none")
     THEN [ords[x] EXCEPT !.status = "paid", !.paidAt = now]
     ELSE ords[x]]

\* OrderService.markAsPaid
markAsPaid(ords, o, now) ==
  IF ords[o].status # "none"
  THEN [ords EXCEPT ![o].status = "paid", ![o].paidAt = now]
  ELSE ords

\* faulty variant: the status is not looked at
markAsShipped_Always(ords, o) ==
  IF ords[o].status # "none" THEN [ords EXCEPT ![o].status = "shipped"] ELSE ords

\* OrderService.markAsShipped
markAsShipped(ords, o) ==
  IF ords[o].status # "none" /\ ords[o].status = "paid"
  THEN [ords EXCEPT ![o].status = "shipped"]
  ELSE ords

\* ---- initial state: services constructed and connected, nothing ordered ----
InitProgram ==
  /\ orders = [o \in OrderIds |-> NoOrder]
  /\ paymentToOrder = [e \in EventIds |-> 0]
  /\ clock = 1
  /\ pendingPayments = <<>>
  /\ entries = [e \in EventIds |-> NoEntry]
  /\ promise = [e \in EventIds |-> "unsent"]
  /\ timer = [e \in EventIds |-> "none"]
  /\ nextEventId = 1
  /\ sends = 0
  /\ place = [o \in OrderIds |-> [pc |-> "idle", eventId |-> NoEvent]]
  /\ confirm = [o \in OrderIds |-> [pc |-> "idle", eventId |-> NoEvent, result |-> "none"]]
  /\ delivered = 0
  /\ handlers = EmptyBag
  /\ tokens = 0
  /\ observed = [e \in EventIds |-> {}]
  /\ rejected = [e \in EventIds |-> "none"]
  /\ heap = <<>>
  /\ book = <<>>
  /\ notFound = {}
  /\ pubkeyCache = [id \in UnicityIds |-> NoCache]
  /\ calls = [c \in Calls |-> NoCall]
  /\ returnedNull = {}
  /\ norm = NoNorm
  /\ existing = [e \in EventIds |-> "none"]
  /\ received = [o \in OrderIds |-> NoToken]
  /\ subscriptions = 1

Init == InitProgram /\ notes = {"match", "wait"}

\* ---- NostrService.sendPaymentRequest ----

\* faulty variant: sendPaymentRequest registers the entry and arms no timer
ArmTimer_Never(t, e) == t

\* const timeoutId = setTimeout(..., config.paymentTimeoutSeconds * 1000)
ArmTimer(t, e) == [t EXCEPT ![e] = "armed"]

\* the part of sendPaymentRequest after `await this.client.sendPaymentRequest`:
\* link the event to the order, create the deferred promise, register the
\* pending payment and arm the timeout
Register(e, u, o) ==
  /\ paymentToOrder' = [paymentToOrder EXCEPT ![e] = o]
  /\ entries' = [entries EXCEPT ![e] = [eventId |-> e, userPubkey |-> Directory[u], orderId |-> o,
                                        amount |-> OrderTotal, coinId |-> COIN_ID]]
  /\ pendingPayments' = MapSet(pendingPayments, e)
  /\ promise' = [promise EXCEPT ![e] = "pending"]
  /\ timer' = ArmTimer(timer, e)
  /\ nextEventId' = nextEventId + 1

\* the timeout callback of request e.  All timers are armed with the same delay
\* (config.paymentTimeoutSeconds), so they expire in the order they were armed.
TimerFire(e) ==
  /\ timer[e] = "armed"
  /\ \A e2 \in EventIds : e2 < e => timer[e2] # "armed"
  /\ IF Has(pendingPayments, e)
     THEN /\ timer' = [timer EXCEPT ![e] = Note("match", "timedout", "off")]
          /\ pendingPayments' = TimeoutDelete(pendingPayments, e)
          /\ promise' = ResolvePromise(promise, e, "false")
     ELSE /\ timer' = [timer EXCEPT ![e] = "off"]
          /\ UNCHANGED <<pendingPayments, promise>>
  /\ UNCHANGED <<tokens, side, notes, rejected, sends, orders, paymentToOrder, clock, entries, nextEventId, place, confirm,
                 delivered, handlers, observed>>

\* the `then` callback of waitForPayment: runs once paymentPromise is resolved,
\* clears the timer and hands the result to the caller
ClearTimer(t, e) == IF t[e] = "armed" THEN [t EXCEPT ![e] = "off"] ELSE t

\* the holder of the closure calls waitForPayment() once more, after its first
\* call has returned, and gets the result (place_order drops the closure,
\* confirm_order keeps it)
WaitForPayment(e) ==
  /\ \E o \in OrderIds : confirm[o].eventId = e /\ confirm[o].pc = "done"
  /\ Settled(e)
  /\ observed' = [observed EXCEPT ![e] = Note("wait", @ \cup {promise[e]}, @)]
  /\ timer' = ClearTimer(timer, e)
  /\ UNCHANGED <<tokens, side, notes, rejected, sends, orders, paymentToOrder, clock, pendingPayments, entries, promise,
                 nextEventId, place, confirm, delivered, handlers>>

\* ---- place_order tool ----

\* buyers are named in the order they first appear: a buyer who has no order
\* yet is the first unused name of BuyerNames
BuyerNames == <<"alice", "bob">>
KnownBuyers == {orders[o].unicityId : o \in {o2 \in OrderIds : orders[o2].status # "none"}}
NextBuyer == BuyerNames[CHOOSE i \in 1..Len(BuyerNames) :
                          /\ \A j \in 1..(i-1) : BuyerNames[j] \in KnownBuyers
                          /\ BuyerNames[i] \notin KnownBuyers \/ i = Len(BuyerNames)]

\* up to the await inside sendPaymentRequest: the order is created and the
\* payment request is on its way to the relay
PlaceOrder(o, u) ==
  /\ orders[o].status = "none"
  /\ u \in KnownBuyers \cup {NextBuyer}
  /\ \A o2 \in OrderIds : o2 < o => orders[o2].status # "none"
  /\ sends < MaxRequests
  /\ orders' = [orders EXCEPT ![o] = [status |-> "pending_payment", unicityId |-> u, paidAt |-> 0]]
  /\ place' = [place EXCEPT ![o] = [pc |-> "publishing", eventId |-> NoEvent]]
  /\ sends' = sends + 1
  /\ UNCHANGED <<tokens, side, notes, rejected, paymentToOrder, clock, pendingPayments, entries, promise, timer, nextEventId,
                 confirm, delivered, handlers, observed>>

\* the relay client returned the eventId; place_order drops the waiter and returns
PlacePublished(o) ==
  /\ place[o].pc = "publishing"
  /\ nextEventId \in EventIds
  /\ Register(nextEventId, orders[o].unicityId, o)
  /\ place' = [place EXCEPT ![o] = [pc |-> "done", eventId |-> nextEventId]]
  /\ UNCHANGED <<tokens, side, notes, rejected, sends, orders, clock, confirm, delivered, handlers, observed>>

\* the relay client rejected: sendPaymentRequest throws out of the tool
PlacePublishFailed(o) ==
  /\ place[o].pc = "publishing"
  /\ place' = [place EXCEPT ![o].pc = "failed"]
  /\ UNCHANGED <<tokens, side, notes, rejected, sends, orders, paymentToOrder, clock, pendingPayments, entries, promise, timer,
                 nextEventId, confirm, delivered, handlers, observed>>

\* ---- confirm_order tool ----

\* faulty variant: no order is taken as paid already
AlreadyPaid_Never(status) == FALSE

\* order.status === "paid" || order.status === "shipped" || order.status === "delivered"
AlreadyPaid(status) == status \in {"paid", "shipped", "delivered"}

\* the checks on the order, then either the early return for a paid order or
\* the call of sendPaymentRequest up to its await.  The caller has the order
\* id from place_order, so that call has returned.
ConfirmOrder(o) ==
  /\ place[o].pc \in {"done", "failed"}
  /\ confirm[o].pc \in {"idle", "done", "failed"}
  /\ orders[o].status # "none"
  /\ IF AlreadyPaid(orders[o].status)
     THEN /\ confirm' = [confirm EXCEPT ![o] = [pc |-> "done", eventId |-> NoEvent,
                                                result |-> orders[o].status]]
          /\ UNCHANGED sends
     ELSE /\ sends < MaxRequests
          /\ sends' = sends + 1
          /\ confirm' = [confirm EXCEPT ![o] = [pc |-> "publishing", eventId |-> NoEvent,
                                                result |-> "none"]]
  /\ UNCHANGED <<tokens, side, notes, rejected, orders, paymentToOrder, clock, pendingPayments, entries, promise, timer,
                 nextEventId, place, delivered, handlers, observed>>

\* the relay client returned the eventId; confirm_order now awaits waitForPayment()
ConfirmPublished(o) ==
  /\ confirm[o].pc = "publishing"
  /\ nextEventId \in EventIds
  /\ Register(nextEventId, orders[o].unicityId, o)
  /\ confirm' = [confirm EXCEPT ![o].pc = "waiting", ![o].eventId = nextEventId]
  /\ UNCHANGED <<tokens, side, notes, rejected, sends, orders, clock, place, delivered, handlers, observed>>

ConfirmPublishFailed(o) ==
  /\ confirm[o].pc = "publishing"
  /\ confirm' = [confirm EXCEPT ![o].pc = "failed"]
  /\ UNCHANGED <<tokens, side, notes, rejected, sends, orders, paymentToOrder, clock, pendingPayments, entries, promise, timer,
                 nextEventId, place, delivered, handlers, observed>>

\* waitForPayment() resolved: report paid or payment_timeout
ConfirmResume(o) ==
  /\ confirm[o].pc = "waiting"
  /\ Settled(confirm[o].eventId)
  /\ confirm' = [confirm EXCEPT ![o].pc = "done",
                                ![o].result = IF promise[confirm[o].eventId] = "true"
                                              THEN "paid" ELSE "payment_timeout"]
  /\ observed' = [observed EXCEPT ![confirm[o].eventId] =
                                   Note("wait", @ \cup {promise[confirm[o].eventId]}, @)]
  /\ timer' = ClearTimer(timer, confirm[o].eventId)
  /\ UNCHANGED <<tokens, side, notes, rejected, sends, orders, paymentToOrder, clock, pendingPayments, entries, promise,
                 nextEventId, place, delivered, handlers>>

\* ---- NostrService.handleIncomingTransfer ----

\* reply-references an event can carry: none, or a payment request sent so far
\* (a reference to anything else misses the map exactly as one to a settled request does)
ReplyRefs == {NoEvent} \cup {e \in EventIds : e < nextEventId}

\* TokenTransferProtocol.isTokenTransfer(event) is false: skipped
DeliverNotTransfer ==
  /\ delivered + subscriptions <= MaxDeliveries
  /\ delivered' = delivered + subscriptions
  /\ UNCHANGED <<tokens, side, notes, rejected, sends, orders, paymentToOrder, clock, pendingPayments, entries, promise, timer,
                 nextEventId, place, confirm, handlers, observed>>

\* the invocations of handleIncomingTransfer one event starts: the onEvent
\* callback of every subscription the client holds calls it, one after the
\* other, and each runs up to its first await before the next starts, so all
\* of them select the same entry
OnEvent(inv) == [x \in {inv} |-> subscriptions]

\* a token transfer event arrives: correlate it, and either drop it (the
\* invocation returns) or go on to `await TokenTransferProtocol.parseTokenTransfer`
DeliverTransfer(sender, replyTo) ==
  /\ delivered + subscriptions <= MaxDeliveries
  /\ delivered' = delivered + subscriptions
  /\ LET key == MatchPending(pendingPayments, entries, replyTo, sender)
         byRef == MatchByReplyTo(pendingPayments, replyTo) # NoEvent
         miss == replyTo # NoEvent /\ ~byRef
         rivals == \E k \in SeqToSet(pendingPayments) : k # key /\ entries[k].userPubkey = sender
     IN IF key = NoEvent
        THEN handlers' = handlers
        ELSE handlers' = handlers (+) OnEvent(Invocation(key,
                                       Note("reply", IF byRef THEN "replyTo" ELSE "sender", "none"),
                                       Note("match", miss, FALSE),
                                       Note("match", ~byRef /\ rivals, FALSE),
                                       Note("stream", \E e \in EventIds : rejected[e] # "none", FALSE)))
  /\ UNCHANGED <<tokens, side, notes, rejected, sends, orders, paymentToOrder, clock, pendingPayments, entries, promise, timer,
                 nextEventId, place, confirm, observed>>

DecryptOutcomes == {"ok", "invalid", "throw"}

\* history: the handler settles request key false at the given await
Rejected(key, at) ==
  IF promise[key] = "pending"
  THEN [rejected EXCEPT ![key] = Note("store", at, Note("stream", at, @))]
  ELSE rejected

\* history: the processing of an event matched to request key threw
Thrown(key) == [rejected EXCEPT ![key] = Note("stream", "throw", @)]

\* faulty variant: the invocation never returns
Returned_Stuck(h) == handlers

\* the invocation has returned
Returned(h) == handlers (-) SetToBag({h})

\* the invocation goes on to `await this.processTokenTransfer(payloadObj)`
Finalizing(h) == [pc |-> "finalize", pendingKey |-> h.pendingKey, via |-> h.via,
                  refMiss |-> FALSE, rivals |-> FALSE, after |-> h.after]

\* parseTokenTransfer came back.
\*   "throw":   it rejected; the catch at the end of the handler logs and returns
\*   "invalid": the text is not a JSON object with sourceToken, or JSON.parse failed:
\*              pending.resolve(false), delete, return
\*   "ok":      go on to `await this.processTokenTransfer(payloadObj)`
DecryptDone(h, outcome) ==
  /\ h \in Suspended("decrypt")
  /\ LET key == h.pendingKey
     IN CASE outcome = "throw" ->
               /\ handlers' = Returned(h)
               /\ rejected' = Thrown(key)
               /\ UNCHANGED <<promise, pendingPayments, existing>>
          [] outcome = "invalid" ->
               /\ handlers' = Returned(h)
               /\ promise' = ResolvePromise(promise, key, "false")
               /\ existing' = ResolveExisting(existing, key, "false")
               /\ pendingPayments' = HandlerDelete(pendingPayments, key)
               /\ rejected' = Rejected(key, "decrypt")
          [] outcome = "ok" ->
               /\ handlers' = Returned(h) (+) SetToBag({Finalizing(h)})
               /\ UNCHANGED <<promise, pendingPayments, rejected, existing>>
  /\ UNCHANGED <<tokens, apart, received, notes, sends, orders, paymentToOrder, clock, entries, timer, nextEventId,
                 place, confirm, delivered, observed>>

\* finalizeTransfer calls saveReceivedToken before it returns true;
\* saveReceivedToken catches a failure of the write and returns normally
saveReceivedToken(n, written) == IF written THEN Note("store", n + 1, n) ELSE n

\* faulty variant: the order is marked paid whatever processTokenTransfer returned
PaidOnSuccess_Always(ords, o, success, now) == markAsPaid(ords, o, now)

\* if (success) { this.orderService.markAsPaid(pending.orderId); ... }
PaidOnSuccess(ords, o, success, now) ==
  IF success THEN markAsPaid(ords, o, now) ELSE ords

\* the tokens told apart: all of them where the history of the tokens is kept,
\* and one that stands for all where it is not
TokensSeen == Note("value", TransferTokens, {NoToken})

\* history: the token of the transfer that made order o paid.  processTokenTransfer
\* and finalizeTransfer read neither the coin nor the amount of the token.
Received(rcv, o, success, token) ==
  IF success THEN Note("value", [rcv EXCEPT ![o] = token], rcv) ELSE rcv

\* processTokenTransfer came back.  It returns true after finalizeTransfer
\* has called saveReceivedToken (written: the file was written), and false
\* without saving anything.  On success the handler marks the order paid and
\* resolves true, otherwise it resolves false; in both cases it then deletes
\* pendingKey.
FinalizeDone(h, success, written) ==
  /\ h \in Suspended("finalize")
  /\ written => success
  /\ LET key == h.pendingKey
         o == entries[key].orderId
     IN /\ tokens' = saveReceivedToken(tokens, written)
        /\ orders' = PaidOnSuccess(orders, o, success, clock)
        /\ promise' = ResolvePromise(promise, key, IF success THEN "true" ELSE "false")
        /\ existing' = ResolveExisting(existing, key, IF success THEN "true" ELSE "false")
        /\ \E token \in TokensSeen : received' = Received(received, o, success, token)
        /\ pendingPayments' = HandlerDelete(pendingPayments, key)
        /\ rejected' = IF success THEN rejected ELSE Rejected(key, "finalize")
  /\ handlers' = Returned(h)
  /\ UNCHANGED <<apart, notes, sends, paymentToOrder, clock, entries, timer, nextEventId, place, confirm,
                 delivered, observed>>

\* ---- the system ----
Next ==
  \/ \E o \in OrderIds, u \in UnicityIds : PlaceOrder(o, u)
  \/ \E o \in OrderIds : PlacePublished(o)
  \/ \E o \in OrderIds : PlacePublishFailed(o)
  \/ \E o \in OrderIds : ConfirmOrder(o)
  \/ \E o \in OrderIds : ConfirmPublished(o)
  \/ \E o \in OrderIds : ConfirmPublishFailed(o)
  \/ \E o \in OrderIds : ConfirmResume(o)
  \/ \E e \in EventIds : TimerFire(e)
  \/ \E e \in EventIds : WaitForPayment(e)
  \/ DeliverNotTransfer
  \/ \E sender \in Pubkeys, replyTo \in ReplyRefs : DeliverTransfer(sender, replyTo)
  \/ \E h \in Suspended("decrypt"), outcome \in DecryptOutcomes : DecryptDone(h, outcome)
  \/ \E h \in Suspended("finalize"), success, written \in BOOLEAN : FinalizeDone(h, success, written)

Spec == Init /\ [][Next]_vars

\* the same program, with the history of the tier that matched each transfer
ReplyInit == InitProgram /\ notes = {"reply"}
ReplySpec == ReplyInit /\ [][Next]_vars

\* the same program, with the history of what was stored and rejected
StoreInit == InitProgram /\ notes = {"store"}
StoreSpec == StoreInit /\ [][Next]_vars

\* the same program, with the history of which events failed and which were
\* delivered after a failure
StreamInit == InitProgram /\ notes = {"stream"}
StreamSpec == StreamInit /\ [][Next]_vars

\* ---- the order service driven on its own, by any sequence of calls ----
\* everything of the program but orders and clock
rest == <<sends, paymentToOrder, pendingPayments, entries, promise, timer, nextEventId, place,
          confirm, delivered, handlers, tokens, side, notes, observed, rejected>>

\* OrderService.createOrder: orderIds are taken in turn
CreateOrder(o, u) ==
  /\ orders[o].status = "none"
  /\ u \in KnownBuyers \cup {NextBuyer}
  /\ \A o2 \in OrderIds : o2 < o => orders[o2].status # "none"
  /\ orders' = [orders EXCEPT ![o] = [status |-> "pending_payment", unicityId |-> u, paidAt |-> 0]]
  /\ UNCHANGED <<clock, rest>>

\* a call of markAsPaid, with the id of an order or an unknown id
MarkAsPaid(o) ==
  /\ orders' = markAsPaid(orders, o, clock)
  /\ UNCHANGED <<clock, rest>>

\* a call of markAsShipped, with the id of an order or an unknown id
MarkAsShipped(o) ==
  /\ orders' = markAsShipped(orders, o)
  /\ UNCHANGED <<clock, rest>>

\* time passes between two calls
Tick ==
  /\ clock < MaxClock
  /\ clock' = clock + 1
  /\ UNCHANGED <<orders, rest>>

OrderNext ==
  \/ \E o \in OrderIds, u \in UnicityIds : CreateOrder(o, u)
  \/ \E o \in OrderIds : MarkAsPaid(o)
  \/ \E o \in OrderIds : MarkAsShipped(o)
  \/ Tick

OrderInit == InitProgram /\ notes = {}
OrderSpec == OrderInit /\ [][OrderNext]_vars

\* ---- place_order and confirm_order from the return of resolvePubkey ----

\* faulty variant: the result of resolvePubkey is not looked at
Found_Always(pubkey) == TRUE

\* if (!pubkey) return { ..., isError: true }
Found(pubkey) == pubkey # NoKey

\* an error reply ("Could not find Unicity ID", or a refusal of confirm_order):
\* nothing else is done
IdentityNotFound(tool) ==
  /\ notFound' = notFound \cup {tool}
  /\ UNCHANGED <<existing, received, subscriptions, heap, book, pubkeyCache, calls, returnedNull, norm, sends, orders, paymentToOrder, clock,
                 pendingPayments, entries, promise, timer, nextEventId, place, confirm, delivered, handlers, tokens, notes, observed,
                 rejected>>

\* place_order resumes with the result of resolvePubkey
PlaceTool(o, u, pubkey) ==
  IF Found(pubkey) THEN PlaceOrder(o, u) ELSE IdentityNotFound("place_order")

\* faulty variant: the buyer of the order is not looked at
ConfirmRefusal_AnyBuyer(ords, o, u) ==
  IF ords[o].status = "none" THEN "not found" ELSE "none"

\* the checks of confirm_order on the order: getOrder(order_id) is undefined
\* ("not found"), or order.unicityId !== unicityId ("does not belong"); "none"
\* when the call may go on
ConfirmRefusal(ords, o, u) ==
  IF ords[o].status = "none" THEN "not found"
  ELSE IF ords[o].unicityId # u THEN "does not belong"
  ELSE "none"

\* confirm_order of order id o by caller u resumes with the result of
\* resolvePubkey: the identity check, the checks on the order, then the rest
ConfirmTool(o, u, pubkey) ==
  IF ~Found(pubkey) THEN IdentityNotFound("confirm_order")
  ELSE IF ConfirmRefusal(orders, o, u) # "none" THEN IdentityNotFound(ConfirmRefusal(orders, o, u))
  ELSE ConfirmOrder(o)

GateNext ==
  \/ \E o \in OrderIds, u \in UnicityIds : \E pubkey \in {NoKey, Directory[u]} : PlaceTool(o, u, pubkey)
  \/ \E o \in OrderIds : PlacePublished(o)
  \/ \E o \in OrderIds : PlacePublishFailed(o)
  \/ \E o \in OrderIds, u \in UnicityIds : \E pubkey \in {NoKey, Directory[u]} : ConfirmTool(o, u, pubkey)
  \/ \E o \in OrderIds : ConfirmPublished(o)
  \/ \E o \in OrderIds : ConfirmPublishFailed(o)

GateInit == InitProgram /\ notes = {}
GateSpec == GateInit /\ [][GateNext]_vars

\* ---- resolvePubkey: the cache of index.ts and the retries of NostrService ----

\* 5 * 60 * 1000 ms.  Time is counted in units of 5 minutes here
PUBKEY_CACHE_TTL_MS == 1

\* maxRetries: number = 3
MaxRetries == 3

\* faulty variant: one more attempt is made
AttemptsLeft_More(attempt) == attempt <= MaxRetries

\* if (attempt < maxRetries): the loop goes on after the delay
AttemptsLeft(attempt) == attempt < MaxRetries

\* cached && Date.now() - cached.timestamp < PUBKEY_CACHE_TTL_MS
CacheLive(cache, id, now) ==
  cache[id] # NoCache /\ now - cache[id].timestamp < PUBKEY_CACHE_TTL_MS

\* faulty variant: whatever was returned is cached
CachePut_Any(cache, id, pubkey, now) ==
  [cache EXCEPT ![id] = [pubkey |-> pubkey, timestamp |-> now]]

\* if (pubkey) pubkeyCache.set(cleanId, { pubkey, timestamp: Date.now() })
CachePut(cache, id, pubkey, now) ==
  IF pubkey # NoKey THEN [cache EXCEPT ![id] = [pubkey |-> pubkey, timestamp |-> now]] ELSE cache

\* everything of the program but the cache, the calls and the clock
others == <<existing, received, subscriptions, heap, book, notFound, norm, sends, orders, paymentToOrder, pendingPayments, entries, promise,
            timer, nextEventId, place, confirm, delivered, handlers, tokens, notes, observed,
            rejected>>

\* history: resolvePubkey returns pubkey for id
Returns(id, pubkey) ==
  Note("cache", IF pubkey = NoKey THEN returnedNull \cup {id} ELSE returnedNull \ {id}, returnedNull)

\* resolvePubkey(id) is called: a live cache entry is returned at once,
\* otherwise NostrService.resolvePubkey makes its first query and awaits it
Resolve(c, id) ==
  /\ calls[c].pc \in {"idle", "done"}
  /\ calls' = [calls EXCEPT ![c] =
                 IF CacheLive(pubkeyCache, id, clock)
                 THEN [pc |-> "done", id |-> id, attempt |-> 0, result |-> pubkeyCache[id].pubkey]
                 ELSE [pc |-> "query", id |-> id, attempt |-> 1, result |-> NoKey]]
  /\ returnedNull' = IF CacheLive(pubkeyCache, id, clock)
                     THEN Returns(id, pubkeyCache[id].pubkey) ELSE returnedNull
  /\ UNCHANGED <<pubkeyCache, clock, others>>

\* queryPubkeyByNametag came back, with a pubkey or with null.  A pubkey is
\* returned and cached; after null the call waits 1000 * attempt ms when
\* attempts are left, and returns null when none is
QueryReturns(c, answer) ==
  /\ calls[c].pc = "query"
  /\ answer \in {NoKey, Directory[calls[c].id]}
  /\ IF answer = NoKey /\ AttemptsLeft(calls[c].attempt)
     THEN /\ calls' = [calls EXCEPT ![c].pc = "delay"]
          /\ UNCHANGED <<pubkeyCache, returnedNull>>
     ELSE /\ calls' = [calls EXCEPT ![c].pc = "done", ![c].result = answer]
          /\ pubkeyCache' = CachePut(pubkeyCache, calls[c].id, answer, clock)
          /\ returnedNull' = Returns(calls[c].id, answer)
  /\ UNCHANGED <<clock, others>>

\* the retry delay is over: the next query is made
DelayElapsed(c) ==
  /\ calls[c].pc = "delay"
  /\ calls' = [calls EXCEPT ![c].pc = "query", ![c].attempt = @ + 1]
  /\ UNCHANGED <<pubkeyCache, returnedNull, clock, others>>

ResolveNext ==
  \/ \E c \in Calls, id \in UnicityIds : Resolve(c, id)
  \/ \E c \in Calls, answer \in Pubkeys \cup {NoKey} : QueryReturns(c, answer)
  \/ \E c \in Calls : DelayElapsed(c)
  \/ Tick

ResolveInit == InitProgram /\ notes = {}
ResolveSpec == ResolveInit /\ [][ResolveNext]_vars

\* the calls alone, at one time, where every query comes back (the relay client
\* gives up after 15 s) and every delay ends
RetryNext ==
  \/ \E c \in Calls, id \in UnicityIds : Resolve(c, id)
  \/ \E c \in Calls, answer \in Pubkeys \cup {NoKey} : QueryReturns(c, answer)
  \/ \E c \in Calls : DelayElapsed(c)

RetrySpec ==
  /\ ResolveInit /\ [][RetryNext]_vars
  /\ \A c \in Calls : /\ WF_vars(\E answer \in Pubkeys \cup {NoKey} : QueryReturns(c, answer))
                       /\ WF_vars(DelayElapsed(c))

\* the same, with the history of the latest return for each identifier
CacheInit == InitProgram /\ notes = {"cache"}
CacheSpec == CacheInit /\ [][ResolveNext]_vars

\* ---- cleanUnicityId: the normalization of buyer identifiers ----

\* A text is a sequence of pieces: "@", "unicity", a piece of a name that has
\* no "@" and none of the letters of "unicity" ("a", "b"), or a blank.  The
\* text "@unicity" is then "@" followed by "unicity" and nothing else.
NamePieces == {"unicity", "a", "b"}

\* the names of at most MaxLen pieces
Names == UNION {[1..n -> NamePieces] : n \in 1..MaxLen}

\* the textual forms of a name: n, @n, n@unicity, @n@unicity
FormsOf(n) == <<n, <<"@">> \o n, n \o <<"@", "unicity">>, <<"@">> \o n \o <<"@", "unicity">>>>

\* String.prototype.indexOf(pat) + 1: where the first occurrence starts, 0 when there is none
IndexOf(s, pat) ==
  LET at == {i \in 1..(Len(s) - Len(pat) + 1) : SubSeq(s, i, i + Len(pat) - 1) = pat}
  IN IF at = {} THEN 0 ELSE CHOOSE i \in at : \A j \in at : i <= j

\* String.prototype.replace(pat, "") with a string pattern: the first occurrence only
ReplaceFirst(s, pat) ==
  IF IndexOf(s, pat) = 0 THEN s
  ELSE SubSeq(s, 1, IndexOf(s, pat) - 1) \o SubSeq(s, IndexOf(s, pat) + Len(pat), Len(s))

\* String.prototype.trim()
RECURSIVE Trim(_)
Trim(s) ==
  IF s = <<>> THEN s
  ELSE IF Head(s) = " " THEN Trim(Tail(s))
  ELSE IF s[Len(s)] = " " THEN Trim(SubSeq(s, 1, Len(s) - 1))
  ELSE s

\* unicityId.replace("@unicity", "").replace("@", "").trim()
cleanUnicityId(s) == Trim(ReplaceFirst(ReplaceFirst(s, <<"@", "unicity">>), <<"@">>))

\* the key of pubkeyCache for an identifier given to a tool: the tool cleans
\* it and resolvePubkey cleans it again
CacheKey(s) == cleanUnicityId(cleanUnicityId(s))

\* an order is placed for name n under its form i, and asked for (get_orders,
\* confirm_order) under its form j
UseForms(n, i, j) ==
  /\ norm' = [name |-> n, placed |-> FormsOf(n)[i], asked |-> FormsOf(n)[j],
              orderKey |-> cleanUnicityId(FormsOf(n)[i]),
              askedKey |-> cleanUnicityId(FormsOf(n)[j]),
              placedCacheKey |-> CacheKey(FormsOf(n)[i]),
              askedCacheKey |-> CacheKey(FormsOf(n)[j])]
  /\ UNCHANGED <<existing, received, subscriptions, heap, book, notFound, pubkeyCache, calls, returnedNull, sends, orders,
                 paymentToOrder, clock, pendingPayments, entries, promise, timer, nextEventId,
                 place, confirm, delivered, handlers, tokens, notes, observed, rejected>>

NormNext == \E n \in Names, i \in 1..4, j \in 1..4 : UseForms(n, i, j)

NormInit == InitProgram /\ notes = {}
NormSpec == NormInit /\ [][NormNext]_vars

\* ---- the catalog and the order store, driven by place_order requests ----

\* what a caller may pass to place_order
ProductInputs == {"tshirt-unicity", "mug-white", "poster"}
QuantityInputs == {0, 1, 10, 11}
SizeInputs == {NoSize, "M", "XS"}

\* randomUUID().slice(0, 8): 8 hexadecimal digits, so two calls can return the same id
OrderKeys == {"1a2b3c4d", "5e6f7a8b"}

\* the zod schema of place_order: quantity is an integer of 1..10, size is
\* absent or one of the enum
SchemaAccepts(quantity, size) ==
  quantity \in 1..10 /\ size \in TShirtSizes \cup {NoSize}

\* the checks of place_order between resolvePubkey and createOrder
PlaceOrderAccepts(productId, quantity, size) ==
  /\ SchemaAccepts(quantity, size)
  /\ productId \in DOMAIN PRODUCTS
  /\ PRODUCTS[productId].inStock
  /\ ~(PRODUCTS[productId].sized /\ size = NoSize)
  /\ ~(PRODUCTS[productId].sized /\ size # NoSize /\ size \notin PRODUCTS[productId].sizes)

\* faulty variant: the price of one item is charged whatever the quantity
createOrder_Unit(key, u, productId, quantity, size, now) ==
  [orderId |-> key, unicityId |-> u, productId |-> productId, size |-> size,
   quantity |-> quantity, totalPrice |-> PRODUCTS[productId].price,
   status |-> "pending_payment", paidAt |-> 0]

\* the Order object OrderService.createOrder makes
createOrder(key, u, productId, quantity, size, now) ==
  [orderId |-> key, unicityId |-> u, productId |-> productId, size |-> size,
   quantity |-> quantity, totalPrice |-> PRODUCTS[productId].price * quantity,
   status |-> "pending_payment", paidAt |-> 0]

\* position of a key in the Map, 0 when it is not there
KeyAt(bk, key) ==
  IF \E i \in 1..Len(bk) : bk[i].orderId = key
  THEN CHOOSE i \in 1..Len(bk) : bk[i].orderId = key
  ELSE 0

\* this.orders.set(orderId, order): a key that is in the Map keeps its place and
\* gets the new object, a new key goes last
OrdersSet(bk, key, ref) ==
  IF KeyAt(bk, key) # 0
  THEN [bk EXCEPT ![KeyAt(bk, key)] = [orderId |-> key, ref |-> ref]]
  ELSE Append(bk, [orderId |-> key, ref |-> ref])

\* OrderService.getOrder: the object under the key, 0 (undefined) when there is none
getOrder(bk, key) == IF KeyAt(bk, key) # 0 THEN bk[KeyAt(bk, key)].ref ELSE 0

\* faulty variant: the orders are not filtered by buyer
getOrdersByUser_All(bk, hp, u) == [i \in 1..Len(bk) |-> hp[bk[i].ref]]

\* OrderService.getOrdersByUser: Array.from(this.orders.values()).filter(...)
getOrdersByUser(bk, hp, u) ==
  LET values == [i \in 1..Len(bk) |-> hp[bk[i].ref]]
  IN SelectSeq(values, LAMBDA o : o.unicityId = u)

\* place_order from the return of resolvePubkey (the buyer was found) up to
\* the await in sendPaymentRequest; the rest of the call is not followed here
ShopPlaceOrder(u, productId, quantity, size, key) ==
  /\ Len(heap) < MaxCreated
  /\ IF PlaceOrderAccepts(productId, quantity, size)
     THEN /\ heap' = Append(heap, createOrder(key, u, productId, quantity, size, clock))
          /\ book' = OrdersSet(book, key, Len(heap) + 1)
          /\ sends' = sends + 1
     ELSE UNCHANGED <<heap, book, sends>>
  /\ UNCHANGED <<existing, received, subscriptions, orders, paymentToOrder, clock, pendingPayments, entries, promise, timer, notFound,
                 pubkeyCache, calls, returnedNull, norm, nextEventId, place, confirm, delivered, handlers, tokens, notes, observed, rejected>>

\* a call of markAsPaid with a key of OrderKeys
ShopMarkAsPaid(key) ==
  /\ heap' = IF getOrder(book, key) # 0 THEN markAsPaid(heap, getOrder(book, key), clock) ELSE heap
  /\ UNCHANGED <<existing, received, subscriptions, book, notFound, pubkeyCache, calls, returnedNull, norm, sends, orders, paymentToOrder, clock, pendingPayments, entries, promise, timer,
                 nextEventId, place, confirm, delivered, handlers, tokens, notes, observed, rejected>>

ShopNext ==
  \/ \E u \in UnicityIds, productId \in ProductInputs, quantity \in QuantityInputs,
        size \in SizeInputs, key \in OrderKeys : ShopPlaceOrder(u, productId, quantity, size, key)
  \/ \E key \in OrderKeys : ShopMarkAsPaid(key)

ShopInit == InitProgram /\ notes = {}
ShopSpec == ShopInit /\ [][ShopNext]_vars

\* ---- C1 ----
\* C1: match and timeout exclude each other: when a handler marks the order
\* paid through the entry it selected, the outcome of that entry's request is
\* true (its timer has not settled it false).
C1_MatchExcludesTimeout ==
  [][\A h \in Suspended("finalize") :
       (\E written \in BOOLEAN : FinalizeDone(h, TRUE, written)) =>
          promise'[h.pendingKey] = "true"]_vars

\* ---- C2 ----
\* C2: the outcome is assigned once and broadcast: a settled promise never
\* changes, and every call of waitForPayment has returned that one value.
C2_OutcomeAssignedOnce ==
  [][\A e \in EventIds :
       /\ Settled(e) => promise'[e] = promise[e]
       /\ observed'[e] \subseteq {promise'[e]}]_vars

\* the only request sent was settled false by its timer and confirm_order saw
\* false; afterwards the handler that had selected the entry before the timeout
\* finished successfully, called resolve(true) and marked the order paid
C2_Witness ==
  /\ nextEventId = 2
  /\ observed[1] = {"false"}
  /\ timer[1] = "timedout"
  /\ orders[entries[1].orderId].status = "paid"

\* ---- C3 ----
\* C3: at most one live pending entry per orderId.
C3_OnePendingPerOrder ==
  \A i, j \in 1..Len(pendingPayments) :
    i # j => entries[pendingPayments[i]].orderId # entries[pendingPayments[j]].orderId

\* ---- C4 ----
\* C4: when the request sent by place_order has been settled true (its
\* transfer was finalized and the order marked paid), a confirm_order that was
\* waiting for the same order resumes with outcome true and reports paid.
C4_ConfirmSeesPlacePayment ==
  [][\A o \in OrderIds :
       (/\ ConfirmResume(o)
        /\ place[o].eventId # NoEvent
        /\ promise[place[o].eventId] = "true") => confirm'[o].result = "paid"]_vars

\* ---- C5 ----
\* C5: an entry is selected by at most one handler invocation, so no two
\* invocations are ever at work (decrypting or finalizing) on the same entry.
C5_SingleSelection ==
  \A h1, h2 \in BagToSet(handlers) :
    h1.pendingKey = h2.pendingKey => (h1 = h2 /\ CopiesIn(h1, handlers) = 1)

\* ---- C6 ----
\* C6: a settled entry is out of the registry before any waiter sees the
\* outcome, and from then on no handler invocation selects it and
\* getPendingPaymentForOrder does not return it.
C6_RemovedOnSettlement ==
  [][/\ \A e \in EventIds :
          /\ promise'[e] \in {"true", "false"} => ~Has(pendingPayments', e)
          /\ observed'[e] # {} => ~Has(pendingPayments', e)
          /\ promise'[e] \in {"true", "false"} =>
               \A o \in OrderIds : getPendingPaymentForOrder(pendingPayments', entries', o) # e
     /\ \A h \in BagToSet(handlers') :
          (h.pc = "decrypt" /\ CopiesIn(h, handlers') > CopiesIn(h, handlers)) =>
             ~Settled(h.pendingKey)]_vars

\* an entry was settled by a handler, the waiter has seen the outcome, and an
\* event that arrived later and referred to a settled request was correlated
\* by its sender to another entry
C6_Witness ==
  \E e \in EventIds :
    /\ Settled(e) /\ observed[e] # {} /\ timer[e] = "off"
    /\ \E h \in Suspended("decrypt") : h.refMiss

\* ---- C7 ----
\* C7 as stated: an event that arrives after request e timed out and carries e
\* as reply-reference is dropped as unmatched.
C7_LateReplyDropped ==
  [][\A s \in Pubkeys, e \in EventIds :
       (timer[e] = "timedout" /\ DeliverTransfer(s, e)) => handlers' = handlers]_vars

\* C7 amended: a timed-out entry is settled false and out of the registry, and
\* an event that arrives afterwards with its eventId as reply-reference never
\* selects it; the event is dropped (no entry settled, no order changed) exactly
\* when no live entry has the sender's key, and is otherwise correlated by sender.
C7_LateReplyNeverSelectsExpired ==
  [][\A s \in Pubkeys, e \in EventIds :
       (timer[e] = "timedout" /\ DeliverTransfer(s, e)) =>
          /\ promise[e] = "false"
          /\ ~Has(pendingPayments, e)
          /\ \A h \in BagToSet(handlers' (-) handlers) : h.pendingKey # e
          /\ (handlers' = handlers) <=>
               (\A k \in SeqToSet(pendingPayments) : entries[k].userPubkey # s)
          /\ UNCHANGED <<pendingPayments, promise, orders>>]_vars

\* request 1 timed out; an event that named it as reply-reference arrived while
\* request 2 was live and was correlated to request 2 by its sender
C7_Witness ==
  /\ timer[1] = "timedout"
  /\ nextEventId = 3
  /\ \E h \in Suspended("decrypt") : h.refMiss /\ h.pendingKey = 2

\* ---- C8 ----
\* C8: an event whose reply-reference is the eventId of a live entry selects
\* exactly that entry, whoever the sender is.
C8_ReplyToWins ==
  [][\A s \in Pubkeys, r \in EventIds :
       (Has(pendingPayments, r) /\ DeliverTransfer(s, r)) =>
          \E h \in BagToSet(handlers' (-) handlers) : h.pendingKey = r /\ h.pc = "decrypt"]_vars

\* a handler selected an entry while an earlier-registered entry of the same
\* buyer was live (the sender tier would have selected the earlier one)
C8_Witness ==
  \E h \in Suspended("decrypt"), e2 \in EventIds :
    /\ ~h.refMiss /\ ~h.rivals
    /\ e2 < h.pendingKey
    /\ Has(pendingPayments, e2)
    /\ entries[e2].userPubkey = entries[h.pendingKey].userPubkey

\* ---- C9 ----
\* C9: an event with no reply-reference, or with one that is not in the map,
\* selects the earliest-registered live entry of its sender, and none only
\* when the sender has no live entry.  (eventIds are handed out in the order
\* of registration.)
C9_EarliestOfSender ==
  [][\A s \in Pubkeys, r \in {NoEvent} \cup EventIds :
       (~(r # NoEvent /\ Has(pendingPayments, r)) /\ DeliverTransfer(s, r)) =>
          LET cands == {k \in SeqToSet(pendingPayments) : entries[k].userPubkey = s}
          IN IF cands = {}
             THEN handlers' = handlers
             ELSE \E h \in BagToSet(handlers' (-) handlers) :
                    /\ h.pendingKey \in cands
                    /\ \A k \in cands : h.pendingKey <= k]_vars

\* an event arrived when requests 1 and 2 of one buyer were both live and was
\* matched by sender to request 1
C9_Witness ==
  /\ \E h \in Suspended("decrypt") : h.rivals /\ h.pendingKey = 1
  /\ Has(pendingPayments, 1) /\ Has(pendingPayments, 2)
  /\ entries[1].userPubkey = entries[2].userPubkey

\* ---- C10 ----
\* the program with no history kept, and timers that expire once armed
FairInit == InitProgram /\ notes = {}
FairSpec == FairInit /\ [][Next]_vars /\ \A e \in EventIds : WF_vars(TimerFire(e))

\* C10: every registered entry is eventually settled and out of the registry.
C10_EventuallySettled ==
  \A e \in EventIds : Has(pendingPayments, e) ~> (~Has(pendingPayments, e) /\ Settled(e))

\* an entry nobody waited for and no event arrived for was settled by its timer
C10_Witness ==
  \E o \in OrderIds :
    /\ place[o].pc = "done" /\ confirm[o].pc = "idle"
    /\ timer[place[o].eventId] = "off"
    /\ promise[place[o].eventId] = "false"
    /\ delivered = 0

\* ---- C11 ----
\* C11: when a transfer that was matched by its reply-reference to a live
\* entry (so it was delivered before the entry's timeout fired) has been
\* decrypted and finalized successfully, the order is paid with paidAt set and
\* the outcome of the request is true.
C11_ReplyBeforeTimeoutPays ==
  [][\A h \in Suspended("finalize") :
       (h.via = "replyTo" /\ \E written \in BOOLEAN : FinalizeDone(h, TRUE, written)) =>
          /\ orders'[entries[h.pendingKey].orderId].status = "paid"
          /\ orders'[entries[h.pendingKey].orderId].paidAt # 0
          /\ promise'[h.pendingKey] = "true"]_vars

\* ---- C12 ----
\* C12: a handler invocation changes only the entry it selected and that
\* entry's order: when it settles or finishes, every other request keeps its
\* outcome and its place in the registry, and every other order is unchanged;
\* and the delivery that selects the entry named by the reply-reference
\* changes no entry and no order.
C12_OnlyMatchedEntryChanges ==
  [][/\ \A h \in BagToSet(handlers) :
          CopiesIn(h, handlers') < CopiesIn(h, handlers) =>
            /\ \A e \in EventIds \ {h.pendingKey} :
                 /\ promise'[e] = promise[e]
                 /\ Has(pendingPayments', e) <=> Has(pendingPayments, e)
            /\ \A o \in OrderIds \ {entries[h.pendingKey].orderId} : orders'[o] = orders[o]
            /\ entries' = entries
     /\ \A s \in Pubkeys, r \in EventIds :
          (Has(pendingPayments, r) /\ DeliverTransfer(s, r)) =>
             UNCHANGED <<pendingPayments, promise, orders, entries>>]_vars

\* two orders of one buyer each had a live request; the second order is paid
\* and its request settled true, the first order still awaits payment and its
\* entry is live (so the transfer was matched by its reply-reference: the
\* sender tier would have selected the first entry)
C12_Witness ==
  /\ place[1].eventId = 1 /\ place[2].eventId = 2
  /\ orders[1].unicityId = orders[2].unicityId
  /\ orders[2].status = "paid" /\ promise[2] = "true"
  /\ orders[1].status = "pending_payment" /\ Has(pendingPayments, 1) /\ promise[1] = "pending"

\* ---- C13 ----
\* C13: when decrypting or parsing the payload of a matched event fails
\* (parseTokenTransfer throws, or the text is not a JSON object with
\* sourceToken), the matched entry, if still pending, is settled false and
\* removed at once, and no order changes.
C13_ParseFailureSettlesFalse ==
  [][\A h \in Suspended("decrypt"), outcome \in {"throw", "invalid"} :
       (Has(pendingPayments, h.pendingKey) /\ DecryptDone(h, outcome)) =>
          /\ promise'[h.pendingKey] = "false"
          /\ ~Has(pendingPayments', h.pendingKey)
          /\ orders' = orders]_vars

\* ---- C14 ----
\* C14: when finalizing a matched transfer fails (processTokenTransfer returns
\* false), the entry is removed and, if it was still pending, settled false;
\* markAsPaid is not called, so no order changes, and no token is stored.
C14_FinalizeFailureSettlesFalse ==
  [][\A h \in Suspended("finalize") :
       FinalizeDone(h, FALSE, FALSE) =>
          /\ ~Has(pendingPayments', h.pendingKey)
          /\ Has(pendingPayments, h.pendingKey) => promise'[h.pendingKey] = "false"
          /\ orders' = orders
          /\ tokens' = tokens]_vars

\* a request was settled false by a handler whose finalization failed, before
\* its timer expired, and its order still awaits payment
C14_Witness ==
  \E e \in EventIds :
    /\ rejected[e] = "finalize" /\ promise[e] = "false" /\ timer[e] = "armed"
    /\ ~Has(pendingPayments, e)
    /\ orders[entries[e].orderId].status = "pending_payment"

\* ---- C15 ----
\* C15: whenever a request is settled true, its order is already paid (or
\* later) and the received token has been written to storage.
C15_TrueMeansPaidAndStored ==
  \A e \in EventIds :
    promise[e] = "true" =>
       /\ orders[entries[e].orderId].status \in {"paid", "shipped", "delivered"}
       /\ tokens > 0

\* ---- C16 ----
\* C16: no failure while processing an inbound event escapes the delivery path.
\* An invocation whose processing fails (parseTokenTransfer throws or yields
\* an invalid payload, or processTokenTransfer returns false) returns, leaving
\* the other invocations as they were; and a transfer delivered after a
\* failure that correlates to a live entry is still matched to it, and settles
\* it true when its processing succeeds.
C16_FailureDoesNotStopTheStream ==
  [][/\ \A h \in BagToSet(handlers) :
          (\/ \E outcome \in {"throw", "invalid"} : DecryptDone(h, outcome)
           \/ FinalizeDone(h, FALSE, FALSE))
          => handlers' (+) SetToBag({h}) = handlers
     /\ (delivered' # delivered /\ \E e \in EventIds : rejected[e] # "none") =>
          \A s \in Pubkeys, r \in ReplyRefs :
            LET key == MatchPending(pendingPayments, entries, r, s)
            IN (DeliverTransfer(s, r) /\ key # NoEvent) =>
                 \E h \in Suspended("decrypt")' :
                   /\ h.pendingKey = key /\ h.after
                   /\ CopiesIn(h, handlers') = CopiesIn(h, handlers) + 1
     /\ \A h \in Suspended("finalize") :
          (h.after /\ promise[h.pendingKey] = "pending"
             /\ \E written \in BOOLEAN : FinalizeDone(h, TRUE, written))
          => (promise'[h.pendingKey] = "true" /\ ~Has(pendingPayments', h.pendingKey))]_vars

\* the processing of the event matched to one request has failed, and a
\* transfer delivered after that failure is matched to another request, which
\* is still live
C16_Witness ==
  \E h \in Suspended("finalize") :
    /\ h.after
    /\ Has(pendingPayments, h.pendingKey) /\ promise[h.pendingKey] = "pending"
    /\ \E e \in EventIds : e # h.pendingKey /\ rejected[e] # "none"

\* ---- C17 ----
\* C17: an inbound event that is not a token transfer, or that correlates to no
\* live pending entry (its reply-reference names none and no live entry has its
\* sender), is dropped with no effect: pendingPayments, the orders, the stored
\* tokens and every promise are unchanged, no waiter resumes, and no
\* invocation goes on to process it.
C17_DroppedEventHasNoEffect ==
  [][delivered' # delivered =>
       ((\/ DeliverNotTransfer
         \/ \E s \in Pubkeys, r \in ReplyRefs :
              /\ DeliverTransfer(s, r)
              /\ ~(r # NoEvent /\ Has(pendingPayments, r))
              /\ \A k \in SeqToSet(pendingPayments) : entries[k].userPubkey # s)
        => UNCHANGED <<pendingPayments, entries, orders, tokens, promise, timer,
                       observed, confirm, place, handlers>>)]_vars

\* an event was delivered before any payment request was registered, so that
\* it was dropped: the order placed still awaits payment, no invocation is
\* running and nothing was stored
C17_Witness ==
  /\ delivered = 1 /\ nextEventId = 1 /\ handlers = EmptyBag
  /\ orders[1].status = "pending_payment" /\ tokens = 0

\* ---- C18 ----
\* the statuses in their order; "none" is an id with no order yet
Rank(st) ==
  CASE st = "none" -> 0 [] st = "pending_payment" -> 1 [] st = "paid" -> 2
    [] st = "shipped" -> 3 [] st = "delivered" -> 4

\* C18: whatever call is made, each order's status stays or moves one step
\* forward along pending_payment, paid, shipped, delivered.
C18_StatusOnlyMovesForward ==
  [][\A o \in OrderIds :
       /\ Rank(orders'[o].status) >= Rank(orders[o].status)
       /\ Rank(orders'[o].status) <= Rank(orders[o].status) + 1]_vars

\* ---- C19 ----
\* C19: markAsPaid on an order that is already paid or later leaves its status
\* and paidAt as they were.
C19_MarkAsPaidIdempotent ==
  [][\A o \in OrderIds :
       (orders[o].status \in {"paid", "shipped", "delivered"} /\ MarkAsPaid(o))
       => (orders'[o].status = orders[o].status /\ orders'[o].paidAt = orders[o].paidAt)]_vars

\* ---- C20 ----
\* C20: markAsShipped sets the status shipped only when it is paid; on an order
\* in any other status, delivered included, or on an id with no order, it
\* leaves every order as it was.
C20_ShippedOnlyFromPaid ==
  [][/\ \A o \in OrderIds :
          MarkAsShipped(o) =>
            IF orders[o].status = "paid"
            THEN orders' = [orders EXCEPT ![o].status = "shipped"]
            ELSE orders' = orders
     /\ \A o \in OrderIds, st \in {"none", "pending_payment", "shipped", "delivered"} :
          LET ords == [orders EXCEPT ![o].status = st]
          IN markAsShipped(ords, o) = ords]_vars

\* one order was shipped, which only markAsShipped does, and it was paid
\* before; another order still awaits payment
C20_Witness ==
  \E o, o2 \in OrderIds :
    /\ orders[o].status = "shipped" /\ orders[o].paidAt # 0
    /\ orders[o2].status = "pending_payment"

\* ---- C21 ----
\* price added up quantity times
RECURSIVE SumOf(_, _)
SumOf(price, quantity) == IF quantity = 0 THEN 0 ELSE price + SumOf(price, quantity - 1)

\* C21: for every product of the catalog and every quantity of 1..10 the order
\* createOrder makes has totalPrice = price * quantity exactly, and the
\* totalPrice of an order never changes afterwards.
C21_TotalPriceExact ==
  [][/\ \A productId \in DOMAIN PRODUCTS, quantity \in 1..10 :
          createOrder("1a2b3c4d", "alice", productId, quantity, NoSize, clock').totalPrice
            = SumOf(PRODUCTS[productId].price, quantity)
     /\ \A i \in 1..Len(heap') :
          heap'[i].totalPrice = SumOf(PRODUCTS[heap'[i].productId].price, heap'[i].quantity)
     /\ Len(heap') >= Len(heap)
     /\ \A i \in 1..Len(heap) : heap'[i].totalPrice = heap[i].totalPrice]_vars

\* an order of 10 t-shirts was created for 250 UCT and has been paid since
C21_Witness ==
  \E i \in 1..Len(heap) :
    /\ heap[i].productId = "tshirt-unicity" /\ heap[i].quantity = 10
    /\ heap[i].totalPrice = 250 * UCT /\ heap[i].status = "paid"

\* ---- C22 ----
\* C22: every order in the store has a quantity of 1..10, has a size if and
\* only if its product defines sizes, and that size is one of the product's
\* sizes; a request that violates any of these creates no order.
C22_StoredOrdersAreValid ==
  \A i \in 1..Len(heap) :
    LET product == PRODUCTS[heap[i].productId]
    IN /\ heap[i].quantity \in 1..10
       /\ heap[i].size # NoSize <=> product.sized
       /\ heap[i].size # NoSize => heap[i].size \in product.sizes

\* ---- C23 ----
\* C23: when the buyer identifier resolves to no address, place_order creates
\* no order, publishes no payment request and registers no pending entry, and
\* confirm_order publishes no payment request and registers no pending entry.
C23_IdentityNotFoundHasNoEffect ==
  [][((\E o \in OrderIds, u \in UnicityIds : PlaceTool(o, u, NoKey))
      \/ (\E o \in OrderIds, u \in UnicityIds : ConfirmTool(o, u, NoKey)))
     => UNCHANGED <<orders, sends, nextEventId, paymentToOrder, pendingPayments, entries,
                    promise, timer, place, confirm>>]_vars

\* both tools have replied that the identifier was not found, and the only
\* order, its one payment request and its one pending entry come from a
\* place_order call whose buyer was found
C23_Witness ==
  /\ notFound = {"place_order", "confirm_order"}
  /\ orders[1].status = "pending_payment" /\ \A o \in OrderIds \ {1} : orders[o].status = "none"
  /\ sends = 1 /\ pendingPayments = <<1>>

\* ---- C24 ----
\* C24: once the buyer's address is resolved and the order exists, the payment
\* request ends with a pending entry registered for the order: no place_order
\* call that has ended leaves an order in pending_payment for which no pending
\* entry was ever registered.
C24_RequestEndsWithEntry ==
  \A o \in OrderIds :
    (orders[o].status = "pending_payment" /\ place[o].pc \in {"done", "failed"})
    => \E e \in EventIds : entries[e].orderId = o

\* ---- C25 ----
\* C25: every order ever created stays retrievable through getOrder under its
\* original orderId: creating an order never replaces or removes another one.
C25_CreatedOrdersStayRetrievable ==
  \A i \in 1..Len(heap) : getOrder(book, heap[i].orderId) = i

C27_CacheServedWithinTTL ==
  [][\A c \in Calls, id \in UnicityIds :
       (pubkeyCache[id] # NoCache /\ Resolve(c, id)) =>
         IF clock - pubkeyCache[id].timestamp <= PUBKEY_CACHE_TTL_MS
         THEN calls'[c] = [pc |-> "done", id |-> id, attempt |-> 0,
                           result |-> pubkeyCache[id].pubkey]
         ELSE calls'[c].pc = "query" /\ calls'[c].attempt = 1]_vars

\* ---- C28 ----
\* the cache changes only by the entry of a successful query's identifier,
\* which becomes the address returned, and a query that returns no address
\* leaves the cache as it was
OnlyAddressesCached ==
  /\ \A id \in UnicityIds :
       pubkeyCache'[id] # pubkeyCache[id] =>
         /\ pubkeyCache'[id].pubkey = Directory[id]
         /\ \E c \in Calls : calls[c].pc = "query" /\ calls[c].id = id
                             /\ calls'[c].pc = "done" /\ calls'[c].result = Directory[id]
  /\ \A c \in Calls : QueryReturns(c, NoKey) => pubkeyCache' = pubkeyCache

\* C28 as stated: a failed lookup is never cached, it leaves the cache
\* unchanged, and after resolvePubkey returned null the next call for the same
\* identifier queries the directory again.
C28_NextCallQueriesAgain ==
  [][/\ OnlyAddressesCached
     /\ \A c \in Calls, id \in returnedNull :
          Resolve(c, id) => (calls'[c].pc = "query" /\ calls'[c].attempt = 1)]_vars

\* C28, amended: a failed lookup is never cached, it leaves the cache
\* unchanged, and after resolvePubkey returned null the next call for the same
\* identifier queries the directory again, or returns the live address that
\* the successful query of another call has cached; it never returns null
\* without a query.
C28_FailedLookupNeverCached ==
  [][/\ OnlyAddressesCached
     /\ \A c \in Calls, id \in returnedNull :
          Resolve(c, id) =>
            \/ calls'[c].pc = "query" /\ calls'[c].attempt = 1
            \/ /\ calls'[c].pc = "done" /\ calls'[c].result = Directory[id]
               /\ pubkeyCache[id].pubkey = Directory[id]
               /\ clock - pubkeyCache[id].timestamp < PUBKEY_CACHE_TTL_MS]_vars

\* a call for alice has returned null after three queries, nothing is cached
\* for her, and the next call for her has made its first query
C28_Witness ==
  /\ "alice" \in returnedNull /\ pubkeyCache["alice"] = NoCache
  /\ \E c, c2 \in Calls :
       /\ calls[c] = [pc |-> "done", id |-> "alice", attempt |-> MaxRetries, result |-> NoKey]
       /\ calls[c2] = [pc |-> "query", id |-> "alice", attempt |-> 1, result |-> NoKey]

\* ---- C29 ----
\* C29: one call of NostrService.resolvePubkey makes at most 3 queries, the
\* attempt of a call counting them; it makes no query after one that returned
\* an address, which it returns; it returns null exactly when the third query
\* returned no address as the two before; and it always terminates.
C29_AtMostThreeQueries ==
  /\ [][\A c \in Calls :
          /\ calls'[c].attempt <= MaxRetries
          /\ (calls'[c] # calls[c] /\ calls'[c].pc = "query") =>
               calls'[c].attempt = IF calls[c].pc = "delay" THEN calls[c].attempt + 1 ELSE 1
          /\ calls[c].pc = "delay" => calls'[c].pc \in {"delay", "query"}
          /\ \A answer \in Pubkeys :
               QueryReturns(c, answer) => (calls'[c].pc = "done" /\ calls'[c].result = answer)
          /\ QueryReturns(c, NoKey) =>
               IF calls[c].attempt = MaxRetries
               THEN calls'[c].pc = "done" /\ calls'[c].result = NoKey
               ELSE calls'[c].pc = "delay"
          /\ (calls[c].pc = "done" /\ calls'[c] # calls[c]) => calls'[c].attempt <= 1]_vars
  /\ \A c \in Calls : (calls[c].pc \in {"query", "delay"}) ~> (calls[c].pc = "done")

\* one call has returned null after its third query, and another has returned
\* the address its second query found
C29_Witness ==
  \E c, c2 \in Calls :
    /\ calls[c].pc = "done" /\ calls[c].attempt = MaxRetries /\ calls[c].result = NoKey
    /\ calls[c2].pc = "done" /\ calls[c2].attempt = 2 /\ calls[c2].result # NoKey

\* ---- C30 ----
\* C30: the forms n, @n, n@unicity and @n@unicity of every name n normalize to
\* the same key, so that an order placed under one form is listed by
\* get_orders and accepted by confirm_order under any other, and all forms
\* share one cache entry.
C30_FormsShareOneKey ==
  norm # NoNorm =>
    /\ norm.orderKey = norm.askedKey
    /\ norm.placedCacheKey = norm.askedCacheKey

\* ---- C31 ----
\* NostrService.waitForExistingPayment(e): null when e is not in the map;
\* otherwise the entry's resolve field is replaced by a wrapper that calls the
\* previous function and settles the promise returned here
WaitForExistingPayment(e) ==
  /\ Has(pendingPayments, e)
  /\ existing[e] = "none"
  /\ existing' = [existing EXCEPT ![e] = "pending"]
  /\ UNCHANGED <<apart, received, tokens, notes, rejected, sends, orders, paymentToOrder, clock,
                 pendingPayments, entries, promise, timer, nextEventId, place, confirm, delivered,
                 handlers, observed>>

\* the program with callers of waitForExistingPayment, no history kept, and
\* timers that expire once armed
ExistingNext ==
  \/ Next
  \/ \E e \in EventIds : WaitForExistingPayment(e)

ExistingInit == InitProgram /\ notes = {}
ExistingSpec == ExistingInit /\ [][ExistingNext]_vars /\ \A e \in EventIds : WF_vars(TimerFire(e))

\* C31: the promise waitForExistingPayment returned for a live entry is
\* eventually resolved, with true or with false.
C31_ExistingEventuallyResolves ==
  \A e \in EventIds : (existing[e] = "pending") ~> (existing[e] \in {"true", "false"})

\* ---- C32 ----
\* C32: the entry is registered when sendPaymentRequest gets the eventId, not
\* when somebody waits: place_order, which never calls waitForPayment, leaves
\* its request live in the map; an event that names a live request as
\* reply-reference is matched to it; and when the transfer matched to a
\* request is finalized, the order of the request is paid, whether or not
\* anybody waits and whether or not the timer has fired meanwhile.
C32_RegisteredAtSendNotAtWait ==
  [][/\ \A o \in OrderIds :
          PlacePublished(o) =>
            /\ Has(pendingPayments', place'[o].eventId)
            /\ entries'[place'[o].eventId].orderId = o
            /\ promise'[place'[o].eventId] = "pending"
     /\ \A s \in Pubkeys, e \in EventIds :
          (delivered' # delivered /\ Has(pendingPayments, e) /\ DeliverTransfer(s, e)) =>
             \E h \in BagToSet(handlers') :
               /\ h.pendingKey = e /\ h.pc = "decrypt"
               /\ CopiesIn(h, handlers') > CopiesIn(h, handlers)
     /\ \A h \in Suspended("finalize") :
          (\E written \in BOOLEAN : FinalizeDone(h, TRUE, written)) =>
             orders'[entries[h.pendingKey].orderId].status = "paid"]_vars

\* an order was placed and never confirmed, so nobody ever waited for its
\* payment; the transfer arrived for the request of place_order and the order
\* is paid
C32_Witness ==
  \E o \in OrderIds :
    /\ place[o].pc = "done" /\ confirm[o].pc = "idle"
    /\ observed[place[o].eventId] = {}
    /\ promise[place[o].eventId] = "true"
    /\ orders[o].status = "paid"

\* ---- C33 ----
\* C33: one transfer event pays at most one order: when an event is delivered
\* again after the request it names as reply-reference was settled true by
\* its first delivery, the redelivery selects no entry (and so settles no
\* other request and pays no other order).
C33_RedeliveryPaysNothingElse ==
  [][\A s \in Pubkeys, e \in EventIds :
       (/\ promise[e] = "true"
        /\ entries[e].userPubkey = s
        /\ delivered' # delivered
        /\ DeliverTransfer(s, e)) => handlers' = handlers]_vars

\* ---- C34 ----
\* most subscriptions the client is let to hold
MaxSubscriptions == 2

\* NostrService.subscribeToPayments: client.subscribe(filter, listener) adds a
\* subscription to the client; no subscription is ever cancelled
subscribeToPayments(n) == n + 1

\* the transport came back and the client called onReconnected, which calls
\* subscribeToPayments.  restored: the client, which reconnects by itself
\* (autoReconnect), has re-established the subscriptions it held.
Reconnect(restored) ==
  /\ subscriptions' = subscribeToPayments(IF restored THEN subscriptions ELSE 0)
  /\ subscriptions' <= MaxSubscriptions
  /\ subscriptions' # subscriptions
  /\ UNCHANGED <<heap, book, notFound, pubkeyCache, calls, returnedNull, norm, existing, received,
                 tokens, notes, rejected, sends, orders, paymentToOrder, clock, pendingPayments,
                 entries, promise, timer, nextEventId, place, confirm, delivered, handlers,
                 observed>>

\* the program on a transport that drops and reconnects, no history kept
LinkNext ==
  \/ Next
  \/ \E restored \in BOOLEAN : Reconnect(restored)

LinkInit == InitProgram /\ notes = {}
LinkSpec == LinkInit /\ [][LinkNext]_vars

\* C34: whatever reconnects happened, a delivered transfer event starts at
\* most one invocation of handleIncomingTransfer.
C34_OneInvocationPerEvent ==
  [][delivered' # delivered =>
       BagCardinality(handlers') <= BagCardinality(handlers) + 1]_vars

\* ---- C35 ----
\* the program with the history of the tokens received
ValueInit == InitProgram /\ notes = {"value"}
ValueSpec == ValueInit /\ [][Next]_vars

\* C35: an order is paid only by a transfer of the coin and of at least the
\* amount that the matched entry asks for.
C35_PaidByTheRightCoinAndAmount ==
  \A e \in EventIds :
    promise[e] = "true" =>
      LET o == entries[e].orderId
      IN /\ received[o].coinId = entries[e].coinId
         /\ received[o].amount >= entries[e].amount

\* ---- C36 ----
\* C36: the record of an existing order changes only when a handler
\* invocation that had selected a pending entry of that order comes back from
\* processTokenTransfer with success, and the change is to paid; the tools,
\* the timers and the reconnects leave every existing order as it is.
C36_PaidOnlyByTheHandler ==
  [][\A o \in OrderIds :
       (orders[o].status # "none" /\ orders'[o] # orders[o]) =>
          /\ orders'[o].status = "paid"
          /\ \E h \in Suspended("finalize") :
               /\ entries[h.pendingKey].orderId = o
               /\ \E written \in BOOLEAN : FinalizeDone(h, TRUE, written)]_vars

\* an order was paid by a handler that finished after the request had timed
\* out and after the transport had reconnected; the order of another request
\* still awaits payment
C36_Witness ==
  \E o \in OrderIds :
    /\ orders[o].status = "paid"
    /\ place[o].pc = "done"
    /\ promise[place[o].eventId] = "false"
    /\ timer[place[o].eventId] = "off"
    /\ subscriptions = 2
    /\ \E o2 \in OrderIds : orders[o2].status = "pending_payment" /\ place[o2].pc = "done"

\* ---- C37 ----
\* C37: confirm_order for an order that is paid, shipped or delivered returns
\* that status at once: no payment request is published, no entry registered,
\* no timer armed, and the call does not wait.
C37_PaidOrderConfirmedAtOnce ==
  [][\A o \in OrderIds :
       (/\ orders[o].status \in {"paid", "shipped", "delivered"}
        /\ confirm' # confirm
        /\ ConfirmOrder(o)) =>
          /\ confirm'[o].pc = "done"
          /\ confirm'[o].result = orders[o].status
          /\ UNCHANGED <<sends, nextEventId, paymentToOrder, pendingPayments, entries, promise,
                         timer, orders>>]_vars

\* confirm_order returned paid for an order without having sent a request,
\* while the request of another order is live
C37_Witness ==
  \E o \in OrderIds :
    /\ confirm[o] = [pc |-> "done", eventId |-> NoEvent, result |-> "paid"]
    /\ orders[o].status = "paid"
    /\ pendingPayments # <<>>

\* ---- C38 ----
\* C38: confirm_order by a caller who is not the buyer of the order, or for
\* an order id that is unknown, replies with an error and changes nothing: no
\* payment request, no pending entry, no timer, no order touched.
C38_RefusedConfirmHasNoEffect ==
  [][\A o \in OrderIds, u \in UnicityIds :
       (/\ orders[o].status = "none" \/ orders[o].unicityId # u
        /\ ConfirmTool(o, u, Directory[u])) =>
          /\ notFound' \ {"place_order", "confirm_order"} # {}
          /\ notFound' =
               notFound \cup {IF orders[o].status = "none" THEN "not found" ELSE "does not belong"}
          /\ UNCHANGED <<orders, sends, nextEventId, paymentToOrder, pendingPayments, entries,
                         promise, timer, place, confirm>>]_vars

\* both refusals were given: bob asked for alice's order, whose request is
\* live, and an order id that does not exist was asked for; only alice's
\* own place_order has sent a request
C38_Witness ==
  /\ {"not found", "does not belong"} \subseteq notFound
  /\ orders[1].status = "pending_payment" /\ orders[1].unicityId = "alice"
  /\ place[1].pc = "done" /\ confirm[1].pc = "idle"
  /\ sends = 1 /\ pendingPayments = <<1>>

\* ---- C39 ----
\* C39: in every state of the order store an order has paidAt set exactly
\* when its status is paid, shipped or delivered; an order that awaits
\* payment has none.  (paidAt unset is 0; Date.now() is never 0.)
C39_PaidAtIffPaid ==
  \A o \in OrderIds :
    orders[o].status # "none" =>
      /\ orders[o].paidAt # 0 <=> orders[o].status \in {"paid", "shipped", "delivered"}
      /\ orders[o].status = "pending_payment" => orders[o].paidAt = 0

\* one order was paid at a later time than it was created and then shipped,
\* another still awaits payment
C39_Witness ==
  \E o, o2 \in OrderIds :
    /\ orders[o].status = "shipped" /\ orders[o].paidAt > 1
    /\ orders[o2].status = "pending_payment" /\ orders[o2].paidAt = 0

\* ---- C40 ----
\* the pieces a text given as unicity_id is made of
TextPieces == {"@", "unicity", "a", " "}

\* the texts a caller may give: any sequence of pieces, the empty one included
Texts == UNION {[1..n -> TextPieces] : n \in 0..MaxLen}

\* place_order is given the text s and confirm_order the text t: each tool
\* cleans its text (the key of the order, the identifier compared), and
\* resolvePubkey cleans the cleaned text again (the key of the cache)
UseTexts(s, t) ==
  /\ norm' = [name |-> <<>>, placed |-> s, asked |-> t,
              orderKey |-> cleanUnicityId(s),
              askedKey |-> cleanUnicityId(t),
              placedCacheKey |-> CacheKey(s),
              askedCacheKey |-> CacheKey(t)]
  /\ UNCHANGED <<existing, received, subscriptions, heap, book, notFound, pubkeyCache, calls,
                 returnedNull, sends, orders, paymentToOrder, clock, pendingPayments, entries,
                 promise, timer, nextEventId, place, confirm, delivered, handlers, tokens, notes,
                 observed, rejected>>

TextNext == \E s, t \in Texts : UseTexts(s, t)

TextInit == InitProgram /\ notes = {}
TextSpec == TextInit /\ [][TextNext]_vars

\* C40: cleaning is idempotent: the text a tool has cleaned is not changed
\* when resolvePubkey cleans it again.
C40_CleaningIsIdempotent ==
  /\ norm.placedCacheKey = norm.orderKey
  /\ norm.askedCacheKey = norm.askedKey

====
